---- MODULE Spec2Model ----
(***************************************************************************)
(* The part generators of STL101 as a state machine.                       *)
(*                                                                         *)
(* Every generator script builds primitives, combines them with            *)
(* trimesh.boolean.union / trimesh.boolean.difference inside try/except    *)
(* blocks, checks is_watertight, possibly calls fill_holes, returns the    *)
(* mesh, and main() exports it.  A run of one generator is a walk through  *)
(* its list of boolean steps; what the boolean engine answers at each call *)
(* (a mesh, a mesh with no faces, or an exception) is the environment's    *)
(* choice.                                                                 *)
(*                                                                         *)
(* A mesh is the term that built it:                                       *)
(*    <<"none">>                     no mesh bound yet                     *)
(*    <<"prim", name>>               create_box / create_cylinder / ...    *)
(*    <<op, a, b, how>>              op(a, b); how says what produced it:  *)
(*         "manifold" / "blender"    the engine's answer                   *)
(*         "empty"                   the engine answered with zero faces   *)
(*         "util"                    trimesh.util.concatenate              *)
(*    <<"fill_holes", m, NoMesh, "closed" | "open">>   m after fill_holes  *)
(*    <<"fix_normals", m, NoMesh, "same">>, likewise remove_degenerate     *)
(***************************************************************************)
EXTENDS Integers, Sequences, FiniteSets, TLC

VARIABLES
    gen,        \* the generator script that runs
    pc,         \* index of the next statement of its program
    status,     \* "running" | "raised" (exception left the generator) | "done"
    i,          \* loop index of the part fold in progress (0: not in a fold)
    reg,        \* the script's mesh variables
    holes,      \* generate_wall_mount's list `holes`
    engine,     \* what the boolean engine answered in the last step
    failures,   \* engine answers so far that were not a proper mesh
    watertight, \* is_watertight of the mesh under validation (cached property)
    reported,   \* the last "watertight" value printed
    rechecks,   \* reads of is_watertight made after a repair
    repairs,    \* calls of fill_holes
    ret,        \* what the generator returned
    exported,   \* main() wrote the STL file
    prim,       \* the last call of a primitive helper on its own: arguments and result
    rails,      \* the two calls of create_t_profile_upright, run side by side:
                \* each call's position, local variables and engine answers
    invocation  \* which call of the generator this is, what the engine and the
                \* mesh answered so far, what the call before returned

vars == <<gen, pc, status, i, reg, holes, engine, failures, watertight,
          reported, rechecks, repairs, ret, exported, prim, rails, invocation>>

run_vars == <<gen, pc, status, i, reg, holes, engine, failures, watertight,
              reported, rechecks, repairs, ret, exported, invocation>>

(***************************************************************************)
(* Bounds                                                                  *)
(***************************************************************************)
\* engine answers per run that are not a proper mesh (exception or no faces)
MaxFailures == 2
\* iterations of a rib-texture loop that are modelled (the scripts run 19 and 24)
MaxRibs == 1

(***************************************************************************)
(* Meshes                                                                  *)
(***************************************************************************)
NoMesh == <<"none">>

P(name) == <<"prim", name>>

\* the j-th primitive of a loop that builds one per iteration
Pj(name, j) == <<"prim", name, j>>

R(name) == <<"reg", name>>

\* trimesh.util.concatenate([a, b])
concatenate(a, b) == <<"concatenate", a, b, "util">>

\* trimesh.boolean.union / difference ([a, b], engine=e) when it returns:
\* answer "ok" is the engine's mesh, "empty" a mesh with zero faces.
boolean(op, a, b, e, answer) ==
    <<op, a, b, IF answer = "empty" THEN "empty" ELSE e>>

IsNode(m) == Len(m) = 4

\* the mesh has no faces (trimesh: mesh.is_empty)
is_empty(m) == IsNode(m) /\ m[4] = "empty"

RECURSIVE HasConcatenate(_)
\* some step on the way to m took the concatenate fallback
HasConcatenate(m) ==
    /\ IsNode(m)
    /\ \/ m[1] = "concatenate"
       \/ HasConcatenate(m[2])
       \/ HasConcatenate(m[3])

(***************************************************************************)
(* Primitive helpers called on their own.  Lengths are whole millimetres;  *)
(* a box is kept by its extents and by twice its centre, so that x + w/2   *)
(* stays a whole number.                                                   *)
(***************************************************************************)
\* arguments tried for a dimension: negative, zero and positive ones
MaxDim == 2

Dims == -1..MaxDim

NoCallYet == [fn |-> "none", args |-> <<>>, out |-> <<"none">>]

\* a box left where trimesh.creation.box builds it, its centre at the point
\* given
create_box_centred(width, height, depth, x, y, z) ==
    <<"box", <<width, height, depth>>, <<2 * x, 2 * y, 2 * z>>>>

\* box = trimesh.creation.box(extents=[width, height, depth])
\* box.apply_translation([x + width/2, y + height/2, z + depth/2]); return box
create_box(width, height, depth, x, y, z) ==
    <<"box", <<width, height, depth>>,
             <<2 * x + width, 2 * y + height, 2 * z + depth>>>>

\* generate_cable_tray.py, generate_wire_duct_v2.py: return create_box(...)
create_rounded_box_plain(width, height, depth, radius, x, y, z) ==
    create_box(width, height, depth, x, y, z)

\* generate_wire_duct.py: the parts create_rounded_box builds before it
\* unions them: centre and edge boxes only where there is room for them,
\* the four corner cylinders always
rounded_box_parts(width, length, radius) ==
    LET center_width  == width - 2 * radius
        center_length == length - 2 * radius
    IN  (IF center_width > 0 /\ center_length > 0 THEN <<P("center")>> ELSE <<>>)
        \o (IF center_width > 0 THEN <<P("top_edge"), P("bottom_edge")>> ELSE <<>>)
        \o (IF center_length > 0 THEN <<P("left_edge"), P("right_edge")>> ELSE <<>>)
        \o <<P("corner_1"), P("corner_2"), P("corner_3"), P("corner_4")>>

(***************************************************************************)
(* The tray rails and the rail frame of generate_cable_tray.py as boxes.   *)
(* Lengths of this script are in tenths of a millimetre.                   *)
(***************************************************************************)
TRAY_LENGTH == 2000
TRAY_WIDTH == 1200
TRAY_DEPTH == 550
WALL_THICKNESS == 30
BOTTOM_THICKNESS == 20
RAIL_NECK_WIDTH == 30
RAIL_NECK_HEIGHT == 40
RAIL_HEAD_WIDTH == 100
RAIL_CHAMFER_HEIGHT == 30
RAIL_HEAD_FLAT == 5
FRAME_RAIL_WIDTH == 120
FRAME_RAIL_HEIGHT == 120
FRAME_BEAM_WIDTH == 120
FRAME_SLOT_WIDTH == 50
FRAME_CAVITY_WIDTH == 110
FRAME_STOP_THICKNESS == 25
FRAME_LENGTH == 1800
\* FRAME_BEAM_POSITIONS = [0.0, 0.5, 1.0], in halves
FRAME_BEAM_POSITIONS == <<0, 1, 2>>

Abs(n) == IF n < 0 THEN -n ELSE n

\* the faces of a box along axis k (1: X, 2: Y, 3: Z): trimesh.creation.box
\* spans centre -/+ |extent|/2
box_min(b, k) == (b[3][k] - Abs(b[2][k])) \div 2

box_max(b, k) == (b[3][k] + Abs(b[2][k])) \div 2

\* generate_rail_frame: the locals it computes from the module parameters
RAIL_LIP_DEPTH == WALL_THICKNESS \div 2 + RAIL_HEAD_WIDTH \div 2 + 10
RAIL_LIP_HEIGHT == 50
TRAY_INTERIOR == TRAY_WIDTH - 2 * WALL_THICKNESS
FRAME_GAP == TRAY_INTERIOR + 20
ACTUAL_FRAME_WIDTH == FRAME_GAP + 2 * (FRAME_RAIL_WIDTH + RAIL_LIP_DEPTH)
beam_thickness == 30
beam_z == FRAME_RAIL_HEIGHT - beam_thickness
left_lip_end == FRAME_RAIL_WIDTH + RAIL_LIP_DEPTH
right_lip_start == ACTUAL_FRAME_WIDTH - FRAME_RAIL_WIDTH - RAIL_LIP_DEPTH
beam_span == right_lip_start - left_lip_end

\* the j-th cross beam
beam(j) ==
    create_box(beam_span + 100, FRAME_BEAM_WIDTH, beam_thickness,
               left_lip_end - 50,
               (FRAME_BEAM_POSITIONS[j] * (FRAME_LENGTH - FRAME_BEAM_WIDTH)) \div 2,
               beam_z)

\* the boxes generate_rail_frame unions into the frame, in the order of `parts`
frame_parts ==
    << create_box(FRAME_RAIL_WIDTH, FRAME_LENGTH, FRAME_RAIL_HEIGHT, 0, 0, 0),
       create_box(RAIL_LIP_DEPTH, FRAME_LENGTH, RAIL_LIP_HEIGHT,
                  FRAME_RAIL_WIDTH, 0, FRAME_RAIL_HEIGHT - RAIL_LIP_HEIGHT),
       create_box(FRAME_RAIL_WIDTH, FRAME_LENGTH, FRAME_RAIL_HEIGHT,
                  ACTUAL_FRAME_WIDTH - FRAME_RAIL_WIDTH, 0, 0),
       create_box(RAIL_LIP_DEPTH, FRAME_LENGTH, RAIL_LIP_HEIGHT,
                  ACTUAL_FRAME_WIDTH - FRAME_RAIL_WIDTH - RAIL_LIP_DEPTH, 0,
                  FRAME_RAIL_HEIGHT - RAIL_LIP_HEIGHT),
       beam(1), beam(2), beam(3) >>

\* a channel exactly as wide as the rail head
cavity_width_without_clearance == RAIL_HEAD_WIDTH

\* the T-slot channels generate_rail_frame subtracts
cavity_width == RAIL_HEAD_WIDTH + 20
channel_depth == RAIL_LIP_HEIGHT + 10

\* a channel that ends one stop thickness before the far end of the frame
slot_length_inside_frame == FRAME_LENGTH - 2 * FRAME_STOP_THICKNESS

\* slot_length = FRAME_LENGTH - FRAME_STOP_THICKNESS + 1
slot_length == FRAME_LENGTH - FRAME_STOP_THICKNESS + 10

\* centre of the T-profile each channel is cut for
slot_x(side) ==
    IF side = "left"
    THEN FRAME_RAIL_WIDTH + WALL_THICKNESS \div 2
    ELSE ACTUAL_FRAME_WIDTH - FRAME_RAIL_WIDTH - WALL_THICKNESS \div 2

\* a channel only as wide as the entry slot the parameters describe
t_slot_entry_wide(side) ==
    create_box(FRAME_SLOT_WIDTH, slot_length, channel_depth,
               slot_x(side) - FRAME_SLOT_WIDTH \div 2,
               FRAME_STOP_THICKNESS,
               FRAME_RAIL_HEIGHT - RAIL_LIP_HEIGHT - 5)

\* left_t_slot, right_t_slot
t_slot(side) ==
    create_box(cavity_width, slot_length, channel_depth,
               slot_x(side) - cavity_width \div 2,
               FRAME_STOP_THICKNESS,
               FRAME_RAIL_HEIGHT - RAIL_LIP_HEIGHT - 5)

\* generate_tray_rails: where each rail is built
wall_top == TRAY_DEPTH + BOTTOM_THICKNESS

rail_x(side) ==
    IF side = "left"
    THEN WALL_THICKNESS \div 2
    ELSE TRAY_WIDTH - WALL_THICKNESS \div 2

(***************************************************************************)
(* The solids create_t_profile_upright builds                              *)
(***************************************************************************)
\* trimesh.transformations.rotation_matrix(q * pi/2, [1, 0, 0]) applied to p
rotation_x(q, p) ==
    LET c == IF q = 0 THEN 1 ELSE IF q = 2 THEN -1 ELSE 0
        sn == IF q = 1 THEN 1 ELSE IF q = -1 THEN -1 ELSE 0
    IN  <<p[1], c * p[2] - sn * p[3], sn * p[2] + c * p[3]>>

apply_translation(p, t) == <<p[1] + t[1], p[2] + t[2], p[3] + t[3]>>

\* trimesh.creation.extrude_polygon(triangle, height): the triangle in the
\* XY plane at Z = 0 (vertices 1..3) and at Z = height (vertices 4..6)
extrude_polygon(triangle, height) ==
    [k \in 1..6 |->
        LET v == triangle[((k - 1) % 3) + 1]
        IN  <<v[1], v[2], IF k <= 3 THEN 0 ELSE height>>]

\* a chamfer wedge: side = -1 the left one, side = 1 the right one
\* triangle (outer bottom corner, neck edge bottom, neck edge + chamfer),
\* extruded, turned by -pi/2 about X, moved to [x, y, z + neck_height]
chamfer_wedge(side, neck_width, neck_height, head_width, chamfer_height, length, x, y, z) ==
    LET triangle == << <<side * (head_width \div 2), 0>>,
                       <<side * (neck_width \div 2), 0>>,
                       <<side * (neck_width \div 2), chamfer_height>> >>
        solid == extrude_polygon(triangle, length)
    IN  [k \in 1..6 |->
            apply_translation(rotation_x(-1, solid[k]), <<x, y, z + neck_height>>)]

\* overhang = (head_width - neck_width) / 2
overhang(head_width, neck_width) == (head_width - neck_width) \div 2

\* neck, head block and the two wedges of one rail
t_profile_solids(neck_width, neck_height, head_width, chamfer_height, head_flat, length, x, y, z) ==
    [neck |-> create_box(neck_width, length, neck_height,
                         x - neck_width \div 2, y, z),
     head |-> create_box(head_width, length, chamfer_height + head_flat,
                         x - head_width \div 2, y, z + neck_height),
     left_wedge  |-> chamfer_wedge(-1, neck_width, neck_height, head_width,
                                   chamfer_height, length, x, y, z),
     right_wedge |-> chamfer_wedge(1, neck_width, neck_height, head_width,
                                   chamfer_height, length, x, y, z)]

\* the wedge polygon has no area: shapely builds it, what extrude_polygon
\* does with it is not defined by the script
wedge_is_degenerate(neck_width, head_width, chamfer_height) ==
    head_width = neck_width \/ chamfer_height = 0

\* what a call of create_t_profile_upright can give back; there is no
\* check of its arguments before the solids are built
t_profile_outcomes(neck_width, neck_height, head_width, chamfer_height, head_flat, length, x, y, z) ==
    LET solids == t_profile_solids(neck_width, neck_height, head_width,
                                   chamfer_height, head_flat, length, x, y, z)
    IN  IF wedge_is_degenerate(neck_width, head_width, chamfer_height)
        THEN {<<"rail", solids>>, <<"error">>}
        ELSE {<<"rail", solids>>}

(***************************************************************************)
(* Points, in twice the unit so that the middle of any cell of whole       *)
(* coordinates is a point                                                  *)
(***************************************************************************)
\* p lies strictly inside the box
in_box(b, p) ==
    \A k \in 1..3 : 2 * box_min(b, k) < p[k] /\ p[k] < 2 * box_max(b, k)

cross(a, b, p) ==
    (b[1] - a[1]) * (p[2] - a[2]) - (b[2] - a[2]) * (p[1] - a[1])

\* p = <<x, z>> lies strictly inside the triangle a b c
in_triangle(a, b, c, p) ==
    LET d1 == cross(a, b, p)
        d2 == cross(b, c, p)
        d3 == cross(c, a, p)
    IN  \/ d1 > 0 /\ d2 > 0 /\ d3 > 0
        \/ d1 < 0 /\ d2 < 0 /\ d3 < 0

\* p lies strictly inside the wedge, whose extrusion axis is Y after the
\* quarter turn about X
in_wedge(w, p) ==
    LET xz(k) == <<2 * w[k][1], 2 * w[k][3]>>
        ya == 2 * w[1][2]
        yb == 2 * w[4][2]
    IN  /\ \/ ya < p[2] /\ p[2] < yb
           \/ yb < p[2] /\ p[2] < ya
        /\ in_triangle(xz(1), xz(2), xz(3), <<p[1], p[3]>>)

\* material of the rail after both wedges were subtracted
in_rail(solids, p) ==
    /\ in_box(solids.neck, p) \/ in_box(solids.head, p)
    /\ ~in_wedge(solids.left_wedge, p)
    /\ ~in_wedge(solids.right_wedge, p)

\* material of the frame after the two channels were subtracted
in_frame(p) ==
    /\ \E j \in 1..Len(frame_parts) : in_box(frame_parts[j], p)
    /\ ~in_box(t_slot("left"), p)
    /\ ~in_box(t_slot("right"), p)

(***************************************************************************)
(* Statements.  A program is the sequence of the boolean statements of a   *)
(* script, in source order; a statement names the mesh variables it reads  *)
(* and binds.  P(..) is a primitive built in place, R(..) a mesh variable. *)
(***************************************************************************)

\* x = parts[0]; for part in parts[1:]: try x = union([x, part])
\*                                      except: x = concatenate([x, part])
\* (guarded = FALSE: the same loop with no try/except around the union)
Fold(dst, list, guarded) ==
    [k |-> "fold", dst |-> dst, list |-> list, dyn |-> FALSE, guarded |-> guarded]

\* all_holes = holes[0]; for h in holes[1:]: ... over the run-time list `holes`
FoldHoles(dst) ==
    [k |-> "fold", dst |-> dst, list |-> <<>>, dyn |-> TRUE, guarded |-> TRUE]

\* try: dst = difference([src, part])   except: dst = src
TryDiff(dst, src, part) ==
    [k |-> "try_diff", dst |-> dst, src |-> src, part |-> part]

\* try: d1 = op1([a1, b1]); d2 = op2([a2, b2])   except: print / pass
Try2(op1, d1, a1, b1, op2, d2, a2, b2) ==
    [k |-> "try2", op1 |-> op1, d1 |-> d1, a1 |-> a1, b1 |-> b1,
                   op2 |-> op2, d2 |-> d2, a2 |-> a2, b2 |-> b2]

\* dst = op([a, b]) with no try/except around it
Raw(op, dst, a, b) ==
    [k |-> "raw", op |-> op, dst |-> dst, a |-> a, b |-> b]

\* try: h = union of `unions`, left to right; holes.append(h)
\* except: holes.append(each of `separate`)
HoleBlock(unions, separate) ==
    [k |-> "hole_block", unions |-> unions, separate |-> separate]

\* try: dst = difference([a, b], engine='blender')
\* except: try: dst = difference([a, b], engine='manifold')  except: dst = a
DiffEngines(dst, a, b) ==
    [k |-> "diff_engines", dst |-> dst, a |-> a, b |-> b]

\* [print is_watertight;] if not dst.is_watertight: dst.fill_holes()
\* [dst.fix_normals()]  [if hasattr(..): dst.remove_degenerate_faces()]
Validate(dst, print_first, fix) ==
    [k |-> "validate", dst |-> dst, print_first |-> print_first, fix |-> fix]

\* dst = src
Bind(dst, src) == [k |-> "bind", dst |-> dst, src |-> src]

\* return src
Return(src) == [k |-> "return", src |-> src]

\* main(): print(f"Mesh is watertight: {mount.is_watertight}")
MainPrint == [k |-> "main_print"]

\* main(): mesh.export(path)
Export == [k |-> "export"]

(***************************************************************************)
(* Programs                                                                *)
(***************************************************************************)

\* generate_cable_tray.py --------------------------------------------------
generate_tray_shell ==
    << TryDiff("shell", P("outer"), P("inner")),
       Try2("union", "slots", P("front_slot"), P("back_slot"),
            "difference", "shell", R("shell"), R("slots")) >>

create_t_profile_upright(rail) ==
    << Fold(rail, <<Pj("neck", rail), Pj("head", rail)>>, TRUE),
       Try2("difference", rail, R(rail), Pj("left_wedge", rail),
            "difference", rail, R(rail), Pj("right_wedge", rail)) >>

generate_tray_rails ==
    create_t_profile_upright("left_rail") \o create_t_profile_upright("right_rail")

generate_cable_tray ==
    generate_tray_shell \o generate_tray_rails \o
    << Fold("result", <<R("shell"), R("left_rail"), R("right_rail")>>, TRUE),
       Validate("result", TRUE, FALSE),
       Return("result"),
       Export >>

\* 3 beam positions x 2 screw holes per beam
FrameScrewHoles ==
    [j \in 1..6 |->
        Try2("union", "hole", Pj("shaft", j), Pj("countersink", j),
             "difference", "frame", R("frame"), R("hole"))]

generate_rail_frame ==
    << Fold("frame", <<P("left_rail_base"), P("left_rail_lip"),
                       P("right_rail_base"), P("right_rail_lip"),
                       Pj("beam", 1), Pj("beam", 2), Pj("beam", 3)>>, TRUE),
       Try2("union", "slots", P("left_t_slot"), P("right_t_slot"),
            "difference", "frame", R("frame"), R("slots")) >>
    \o FrameScrewHoles \o
    << Return("frame"), Export >>

\* generate_z_bracket.py ---------------------------------------------------
generate_bracket ==
    << Fold("result", <<P("top"), P("vert"), P("lip")>>, FALSE),
       Raw("difference", "result", R("result"), Pj("hole", 1)),
       Raw("difference", "result", R("result"), Pj("hole", 2)),
       Return("result"),
       Export >>

\* generate_wire_duct.py ---------------------------------------------------
DUCT_WIDTH == 25
DUCT_LENGTH == 150
CORNER_RADIUS == 2

\* outer = create_rounded_box(DUCT_WIDTH, DUCT_LENGTH, DUCT_HEIGHT, CORNER_RADIUS, ..)
create_rounded_box ==
    << Fold("outer", rounded_box_parts(DUCT_WIDTH, DUCT_LENGTH, CORNER_RADIUS), TRUE) >>

generate_duct_body ==
    create_rounded_box \o
    << TryDiff("shell", R("outer"), P("inner")),
       TryDiff("shell", R("shell"), P("slot")) >>

generate_mounting_clip(clip) ==
    << Fold(clip, <<Pj("base", clip), Pj("arm_up", clip), Pj("lip", clip),
                    Pj("arm_down", clip), Pj("back_lip", clip)>>, TRUE) >>

\* num_clips = max(2, int(DUCT_LENGTH / CLIP_SPACING) + 1) = 3
generate_wire_duct ==
    generate_duct_body
    \o generate_mounting_clip("clip_1")
    \o generate_mounting_clip("clip_2")
    \o generate_mounting_clip("clip_3") \o
    << Fold("result", <<R("shell"), R("clip_1"), R("clip_2"), R("clip_3")>>, TRUE),
       Validate("result", TRUE, FALSE),
       Return("result"),
       Export >>

\* generate_wire_duct_v2.py, _simple.py, _final.py -------------------------
add_screw_holes ==
    [j \in 1..2 |->
        Try2("union", "hole", Pj("shaft", j), Pj("countersink", j),
             "difference", "body", R("body"), R("hole"))]

Min(a, b) == IF a < b THEN a ELSE b

\* for i in range(1, num_ribs): try: body = union(left_rib); body = union(right_rib)
add_ribs(num_ribs) ==
    [j \in 1..Min(num_ribs - 1, MaxRibs) |->
        Try2("union", "body", R("body"), Pj("left_rib", j),
             "union", "body", R("body"), Pj("right_rib", j))]

\* the duct body with the retention lips added before the cavity is cut
generate_duct_body_v2_lips_first ==
    << Fold("body", <<P("base"), P("outer")>>, TRUE),
       Try2("union", "body", R("body"), P("left_lip"),
            "union", "body", R("body"), P("right_lip")),
       TryDiff("body", R("body"), P("inner")) >>

generate_duct_body_v2 ==
    << Fold("body", <<P("base"), P("outer")>>, TRUE),
       TryDiff("body", R("body"), P("inner")),
       Try2("union", "body", R("body"), P("left_lip"),
            "union", "body", R("body"), P("right_lip")) >>

generate_wire_duct_v2 ==
    generate_duct_body_v2 \o add_screw_holes \o
    << Validate("body", TRUE, FALSE), Return("body"), Export >>

generate_channel_body ==
    << Fold("body", <<P("base"), P("outer")>>, TRUE),
       TryDiff("body", R("body"), P("inner_cavity")) >>

\* num_ribs = int(CHANNEL_LENGTH / RIB_SPACING) = int(200 / 10)
generate_wire_duct_simple ==
    generate_channel_body \o add_ribs(20) \o add_screw_holes \o
    << Validate("body", TRUE, FALSE), Return("body"), Export >>

\* num_ribs = int(DUCT_LENGTH / RIB_SPACING) = int(200 / 8)
generate_wire_duct_final ==
    << Bind("body", P("extrude_profile")) >>
    \o add_ribs(25) \o add_screw_holes \o
    << Validate("body", TRUE, FALSE), Return("body"), Export >>

\* generate_mount.py -------------------------------------------------------
MountHoles ==
    [j \in 1..4 |->
        HoleBlock(<<Pj("shaft_hole", j), Pj("flat_section", j),
                    Pj("connector", j), Pj("countersink_cone", j)>>,
                  <<Pj("shaft_hole", j), Pj("flat_section", j),
                    Pj("countersink_cone", j), Pj("connector", j)>>)]

generate_wall_mount ==
    << Fold("bracket", <<P("back_plate"), P("bottom_spacer"), P("top_spacer"),
                         P("left_spacer"), P("right_spacer"),
                         P("center_rib_h"), P("center_rib_v"), P("front_plate"),
                         Pj("pillar", 1), Pj("pillar", 2),
                         Pj("pillar", 3), Pj("pillar", 4)>>, TRUE) >>
    \o MountHoles \o
    << FoldHoles("all_holes"),
       DiffEngines("result", R("bracket"), R("all_holes")),
       Validate("result", FALSE, TRUE),
       Return("result"),
       MainPrint,
       Export >>

\* rain101/generate_mount.py -----------------------------------------------
Rain101Holes ==
    [j \in 1..4 |->
        HoleBlock(<<Pj("shaft_hole", j), Pj("countersink", j)>>,
                  <<Pj("shaft_hole", j), Pj("countersink", j)>>)]

\* RIB_DIVISIONS - 1 = 3 vertical and 3 horizontal ribs
rain101_generate_wall_mount ==
    << Fold("bracket", <<P("back_plate"), P("bottom_spacer"), P("top_spacer"),
                         P("left_spacer"), P("right_spacer"),
                         Pj("rib_v", 1), Pj("rib_v", 2), Pj("rib_v", 3),
                         Pj("rib_h", 1), Pj("rib_h", 2), Pj("rib_h", 3),
                         P("front_plate"),
                         Pj("pillar", 1), Pj("pillar", 2),
                         Pj("pillar", 3), Pj("pillar", 4)>>, TRUE) >>
    \o Rain101Holes \o
    << FoldHoles("all_holes"),
       DiffEngines("result", R("bracket"), R("all_holes")),
       Validate("result", FALSE, FALSE),
       Return("result"),
       MainPrint,
       Export >>

Generators ==
    {"cable_tray", "rail_frame", "z_bracket", "wire_duct", "wire_duct_v2",
     "wire_duct_simple", "wire_duct_final", "mount", "rain101_mount"}

Program(g) ==
    CASE g = "cable_tray"       -> generate_cable_tray
      [] g = "rail_frame"       -> generate_rail_frame
      [] g = "z_bracket"        -> generate_bracket
      [] g = "wire_duct"        -> generate_wire_duct
      [] g = "wire_duct_v2"     -> generate_wire_duct_v2
      [] g = "wire_duct_simple" -> generate_wire_duct_simple
      [] g = "wire_duct_final"  -> generate_wire_duct_final
      [] g = "mount"            -> generate_wall_mount
      [] g = "rain101_mount"    -> rain101_generate_wall_mount

Regs ==
    {"shell", "slots", "left_rail", "right_rail", "result", "frame", "hole",
     "outer", "clip_1", "clip_2", "clip_3", "body", "bracket", "all_holes"}

(***************************************************************************)
(* The boolean engine's answers                                            *)
(***************************************************************************)
Answers == {"ok", "empty", "raise"}

Cost(s) == Cardinality({j \in 1..Len(s) : s[j] # "ok"})

\* the answers to up to n calls made one after the other inside one try:
\* an exception ends the block, so only the last answer may be "raise"
Runs(n) ==
    {s \in UNION {[1..m -> Answers] : m \in 1..n} :
        /\ \A j \in 1..(Len(s) - 1) : s[j] # "raise"
        /\ Len(s) < n => s[Len(s)] = "raise"
        /\ failures + Cost(s) <= MaxFailures}

\* the answers to difference(engine='blender') and, only after it raised,
\* to difference(engine='manifold')
EngineRuns ==
    {s \in {<<"ok">>, <<"empty">>} \cup {<<"raise", y>> : y \in Answers} :
        failures + Cost(s) <= MaxFailures}

Raised(s) == s[Len(s)] = "raise"

(***************************************************************************)
(* What one statement computes                                             *)
(***************************************************************************)
ValIn(rg, o) == IF o[1] = "reg" THEN rg[o[2]] ELSE o

Val(o) == ValIn(reg, o)

\* a fold whose except branch keeps the accumulator and drops the part
union_or_skip(acc, part, answer) ==
    IF answer = "raise"
    THEN acc
    ELSE boolean("union", acc, part, "manifold", answer)

\* try: union([acc, part], engine='manifold')  except: concatenate([acc, part])
union_or_concatenate(acc, part, answer) ==
    IF answer = "raise"
    THEN concatenate(acc, part)
    ELSE boolean("union", acc, part, "manifold", answer)

\* a difference whose except branch falls back to concatenate, as the unions do
difference_or_concatenate(src, part, answer) ==
    IF answer = "raise"
    THEN concatenate(src, part)
    ELSE boolean("difference", src, part, "manifold", answer)

\* try: difference([src, part], engine='manifold')  except: src
difference_or_keep(src, part, answer) ==
    IF answer = "raise"
    THEN src
    ELSE boolean("difference", src, part, "manifold", answer)

\* the mesh variables after the two statements of a try block, the second
\* reading what the first bound; an exception leaves the rest undone
try_pair(ins, s) ==
    LET r1 == IF s[1] = "raise" THEN reg
              ELSE [reg EXCEPT ![ins.d1] =
                       boolean(ins.op1, Val(ins.a1), Val(ins.b1), "manifold", s[1])]
    IN  IF Len(s) = 2 /\ s[2] # "raise"
        THEN [r1 EXCEPT ![ins.d2] =
                 boolean(ins.op2, ValIn(r1, ins.a2), ValIn(r1, ins.b2), "manifold", s[2])]
        ELSE r1

RECURSIVE union_chain(_, _, _)
\* union of parts[1..n], left to right, the j-th union answered by s[j]
union_chain(parts, s, n) ==
    IF n = 1 THEN parts[1]
    ELSE boolean("union", union_chain(parts, s, n - 1), parts[n], "manifold", s[n - 1])

\* the list `holes` after one hole's try block
append_hole(ins, s) ==
    IF Raised(s)
    THEN holes \o ins.separate
    ELSE Append(holes, union_chain(ins.unions, s, Len(ins.unions)))

\* the same cascade with the engines in the other order
difference_engines_manifold_first(a, b, s) ==
    IF s[1] # "raise" THEN boolean("difference", a, b, "manifold", s[1])
    ELSE IF s[2] # "raise" THEN boolean("difference", a, b, "blender", s[2])
    ELSE a

\* blender first, manifold only after blender raised, the bracket as it is
\* after both raised
difference_engines(a, b, s) ==
    IF s[1] # "raise" THEN boolean("difference", a, b, "blender", s[1])
    ELSE IF s[2] # "raise" THEN boolean("difference", a, b, "manifold", s[2])
    ELSE a

\* mesh.is_watertight: a primitive and a mesh the manifold engine returned
\* are closed, a mesh without faces is not; for a concatenation and for what
\* blender returned it depends on the geometry
is_watertight_values(m) ==
    IF ~IsNode(m) THEN {TRUE}
    ELSE CASE m[4] = "manifold" -> {TRUE}
           [] m[4] = "empty"    -> {FALSE}
           [] m[4] = "closed"   -> {TRUE}
           [] m[4] = "open"     -> {FALSE}
           [] OTHER             -> BOOLEAN

\* mesh.fill_holes(): works on the mesh in place; closed says whether every
\* hole could be filled (never, on a mesh without faces)
fill_holes(m, closed) ==
    <<"fill_holes", m, NoMesh, IF closed THEN "closed" ELSE "open">>

fill_holes_values(m) == IF is_empty(m) THEN {FALSE} ELSE BOOLEAN

fix_normals(m) == <<"fix_normals", m, NoMesh, m[4]>>

remove_degenerate_faces(m) ==
    IF IsNode(m) THEN <<"remove_degenerate_faces", m, NoMesh, m[4]>> ELSE m

\* a validation that calls fill_holes whatever is_watertight says
needs_repair_always(w) == TRUE

\* `if not mesh.is_watertight:` decides whether fill_holes is called
needs_repair(w) == ~w

YesNo(b) == IF b THEN "yes" ELSE "no"

\* generate_tray_rails calls create_t_profile_upright once per side; a call
\* has its own local variables
Rails == {"left_rail", "right_rail"}

\* the first call of a generator: nothing answered yet, no call before it
FirstInvocation ==
    [number |-> 1, tape |-> <<>>, earlier |-> [status |-> "none", solid |-> NoMesh]]

NotCalled ==
    [pc |-> 1, result |-> NoMesh, left_wedge |-> NoMesh, right_wedge |-> NoMesh,
     answers |-> <<>>, mixed |-> FALSE]

(***************************************************************************)
(* The run of one generator                                                *)
(***************************************************************************)
Init ==
    /\ gen \in Generators
    /\ pc = 1
    /\ status = "running"
    /\ i = 0
    /\ reg = [r \in Regs |-> NoMesh]
    /\ holes = <<>>
    /\ engine = <<>>
    /\ failures = 0
    /\ watertight = "unknown"
    /\ reported = "none"
    /\ rechecks = 0
    /\ repairs = 0
    /\ ret = [solid |-> NoMesh]
    /\ exported = FALSE
    /\ prim = NoCallYet
    /\ rails = [r \in Rails |-> NotCalled]
    /\ invocation = FirstInvocation

Prog == Program(gen)

Running == status = "running" /\ pc <= Len(Prog)

Ins == Prog[pc]

At(kind) == Running /\ Ins.k = kind

\* the list a fold runs over: the statement's parts, or the run-time `holes`
ListOf(ins) ==
    IF ins.dyn THEN holes ELSE [j \in 1..Len(ins.list) |-> Val(ins.list[j])]

\* the statement after this one
Goto(next) ==
    /\ pc' = next
    /\ status' = IF next > Len(Prog) THEN "done" ELSE "running"

\* what the engine, or the mesh under validation, answers in this step: in
\* a first call it is noted; a second call is given the same answers in the
\* same order for as long as there are any
Taped(s) ==
    IF invocation.number = 1
    THEN invocation' = [invocation EXCEPT !.tape = Append(@, s)]
    ELSE IF invocation.tape = <<>>
         THEN invocation' = invocation
         ELSE /\ s = Head(invocation.tape)
              /\ invocation' = [invocation EXCEPT !.tape = Tail(@)]

Answered(s) ==
    /\ engine' = s
    /\ failures' = failures + Cost(s)
    /\ Taped(s)

NoCall ==
    /\ engine' = <<>>
    /\ failures' = failures
    /\ invocation' = invocation

\* the index of the part a fold takes after part j
next_part(j) == j + 1

\* a fold that walks parts[1:] from its far end
fold_part_reversed(list, j) == list[Len(list) + 2 - j]

\* the part a fold takes at index j of its list
fold_part(list, j) == list[j]

\* x = parts[0]
FoldInit ==
    /\ At("fold")
    /\ i = 0
    /\ LET list == ListOf(Ins) IN
        /\ reg' = [reg EXCEPT ![Ins.dst] = list[1]]
        /\ IF Len(list) = 1
           THEN i' = 0 /\ Goto(pc + 1)
           ELSE i' = next_part(1) /\ Goto(pc)
    /\ NoCall
    /\ UNCHANGED <<rails, prim, gen, holes, watertight, reported, rechecks, repairs, ret, exported>>

\* one iteration of  for part in parts[1:]
FoldStep ==
    /\ At("fold")
    /\ i >= 2
    /\ \E s \in Runs(1) :
        LET list == ListOf(Ins)
            part == fold_part(list, i)
        IN  /\ Answered(s)
            /\ IF Raised(s) /\ ~Ins.guarded
               THEN /\ status' = "raised"
                    /\ UNCHANGED <<pc, i, reg>>
               ELSE /\ reg' = [reg EXCEPT ![Ins.dst] =
                                  union_or_concatenate(reg[Ins.dst], part, s[1])]
                    /\ IF i >= Len(list)
                       THEN i' = 0 /\ Goto(pc + 1)
                       ELSE i' = next_part(i) /\ Goto(pc)
    /\ UNCHANGED <<rails, prim, gen, holes, watertight, reported, rechecks, repairs, ret, exported>>

TryDifference ==
    /\ At("try_diff")
    /\ \E s \in Runs(1) :
        /\ Answered(s)
        /\ reg' = [reg EXCEPT ![Ins.dst] =
                      difference_or_keep(Val(Ins.src), Val(Ins.part), s[1])]
    /\ Goto(pc + 1)
    /\ UNCHANGED <<rails, prim, gen, i, holes, watertight, reported, rechecks, repairs, ret, exported>>

TryPair ==
    /\ At("try2")
    /\ \E s \in Runs(2) :
        /\ Answered(s)
        /\ reg' = try_pair(Ins, s)
    /\ Goto(pc + 1)
    /\ UNCHANGED <<rails, prim, gen, i, holes, watertight, reported, rechecks, repairs, ret, exported>>

Unguarded ==
    /\ At("raw")
    /\ \E s \in Runs(1) :
        /\ Answered(s)
        /\ IF Raised(s)
           THEN /\ status' = "raised"
                /\ UNCHANGED <<pc, reg>>
           ELSE /\ reg' = [reg EXCEPT ![Ins.dst] =
                              boolean(Ins.op, Val(Ins.a), Val(Ins.b), "manifold", s[1])]
                /\ Goto(pc + 1)
    /\ UNCHANGED <<rails, prim, gen, i, holes, watertight, reported, rechecks, repairs, ret, exported>>

HoleBlockStep ==
    /\ At("hole_block")
    /\ \E s \in Runs(Len(Ins.unions) - 1) :
        /\ Answered(s)
        /\ holes' = append_hole(Ins, s)
    /\ Goto(pc + 1)
    /\ UNCHANGED <<rails, prim, gen, i, reg, watertight, reported, rechecks, repairs, ret, exported>>

DiffEnginesStep ==
    /\ At("diff_engines")
    /\ \E s \in EngineRuns :
        /\ Answered(s)
        /\ reg' = [reg EXCEPT ![Ins.dst] =
                      difference_engines(Val(Ins.a), Val(Ins.b), s)]
    /\ Goto(pc + 1)
    /\ UNCHANGED <<rails, prim, gen, i, holes, watertight, reported, rechecks, repairs, ret, exported>>

BindStep ==
    /\ At("bind")
    /\ reg' = [reg EXCEPT ![Ins.dst] = Val(Ins.src)]
    /\ Goto(pc + 1)
    /\ NoCall
    /\ UNCHANGED <<rails, prim, gen, i, holes, watertight, reported, rechecks, repairs, ret, exported>>

\* the validation block at the end of a generator
\* mesh.fill_holes(), fix_normals(), remove_degenerate_faces() change the
\* object the variable dst names: every variable naming that object (after
\* `result = bracket` both do) sees the change
in_place(dst, m) ==
    [r \in Regs |->
        IF r = dst \/ (reg[dst] # NoMesh /\ reg[r] = reg[dst]) THEN m ELSE reg[r]]

ValidateStep ==
    /\ At("validate")
    /\ \E w \in is_watertight_values(reg[Ins.dst]) :
       \E f \in fill_holes_values(reg[Ins.dst]) :
       \E h \in BOOLEAN :
        LET m  == reg[Ins.dst]
            rp == needs_repair(w)
            m1 == IF rp THEN fill_holes(m, f) ELSE m
            m2 == IF rp /\ Ins.fix THEN fix_normals(m1) ELSE m1
            m3 == IF Ins.fix /\ h THEN remove_degenerate_faces(m2) ELSE m2
        IN  /\ ~rp => f
            /\ ~Ins.fix => ~h
            /\ reported' = IF Ins.print_first THEN YesNo(w) ELSE reported
            /\ repairs' = IF rp THEN repairs + 1 ELSE repairs
            /\ watertight' = IF rp THEN YesNo(f) ELSE YesNo(w)
            /\ reg' = in_place(Ins.dst, m3)
            /\ Taped(<<YesNo(w), YesNo(f), YesNo(h)>>)
    /\ Goto(pc + 1)
    /\ engine' = <<>>
    /\ failures' = failures
    /\ UNCHANGED <<rails, prim, gen, i, holes, rechecks, ret, exported>>

ReturnStep ==
    /\ At("return")
    /\ ret' = [solid |-> reg[Ins.src]]
    /\ Goto(pc + 1)
    /\ NoCall
    /\ UNCHANGED <<rails, prim, gen, i, reg, holes, watertight, reported, rechecks, repairs, exported>>

MainPrintStep ==
    /\ At("main_print")
    /\ reported' = watertight
    /\ rechecks' = IF repairs > 0 THEN rechecks + 1 ELSE rechecks
    /\ Goto(pc + 1)
    /\ NoCall
    /\ UNCHANGED <<rails, prim, gen, i, reg, holes, watertight, repairs, ret, exported>>

ExportStep ==
    /\ At("export")
    /\ exported' = TRUE
    /\ Goto(pc + 1)
    /\ NoCall
    /\ UNCHANGED <<rails, prim, gen, i, reg, holes, watertight, reported, rechecks, repairs, ret>>

Next ==
    \/ FoldInit
    \/ FoldStep
    \/ TryDifference
    \/ TryPair
    \/ Unguarded
    \/ HoleBlockStep
    \/ DiffEnginesStep
    \/ BindStep
    \/ ValidateStep
    \/ ReturnStep
    \/ MainPrintStep
    \/ ExportStep

Spec == Init /\ [][Next]_vars

(***************************************************************************)
(* The primitive helpers called with arguments of any sign                 *)
(***************************************************************************)
CallCreateBox ==
    /\ \E w \in Dims, h \in Dims, d \in Dims :
        prim' = [fn |-> "create_box", args |-> <<w, h, d>>,
                 out |-> create_box(w, h, d, 0, 0, 0)]
    /\ UNCHANGED <<run_vars, rails>>

CallCreateRoundedBoxPlain ==
    /\ \E w \in Dims, h \in Dims, d \in Dims :
        prim' = [fn |-> "create_rounded_box_plain", args |-> <<w, h, d>>,
                 out |-> create_rounded_box_plain(w, h, d, 1, 0, 0, 0)]
    /\ UNCHANGED <<run_vars, rails>>

\* the mesh create_rounded_box returns is the fold of its parts
CallCreateRoundedBox ==
    /\ \E w \in Dims, l \in Dims, r \in Dims :
        prim' = [fn |-> "create_rounded_box", args |-> <<w, l, r>>,
                 out |-> <<"parts", rounded_box_parts(w, l, r)>>]
    /\ UNCHANGED <<run_vars, rails>>

NextPrim ==
    \/ CallCreateBox
    \/ CallCreateRoundedBoxPlain
    \/ CallCreateRoundedBox

SpecPrim == Init /\ [][NextPrim]_vars

(***************************************************************************)
(* Solids as sets of unit cells: a box placed somewhere, a solid composed  *)
(* with itself, a box cut out of a box; each a single call in a fresh      *)
(* process                                                                 *)
(***************************************************************************)
MaxPos == 1
Positions == -MaxPos..MaxPos

RECURSIVE cells(_)
\* the unit cells a mesh encloses; a mesh with no faces encloses none
cells(m) ==
    IF m[1] = "box"
    THEN {c \in (box_min(m, 1)..(box_max(m, 1) - 1))
                \X (box_min(m, 2)..(box_max(m, 2) - 1))
                \X (box_min(m, 3)..(box_max(m, 3) - 1)) : TRUE}
    ELSE IF ~IsNode(m) \/ is_empty(m) THEN {}
    ELSE CASE m[1] = "difference" -> cells(m[2]) \ cells(m[3])
           [] m[1] \in {"union", "concatenate"} -> cells(m[2]) \cup cells(m[3])
           [] OTHER -> cells(m[2])

RECURSIVE volume(_)
\* mesh.volume: the signed volume summed over the faces, so that the faces
\* of both operands of a concatenation count
volume(m) ==
    IF m[1] = "box" THEN Abs(m[2][1]) * Abs(m[2][2]) * Abs(m[2][3])
    ELSE IF IsNode(m) /\ ~is_empty(m) /\ m[1] = "concatenate"
         THEN volume(m[2]) + volume(m[3])
         ELSE Cardinality(cells(m))

CallCreateBoxAt ==
    /\ prim = NoCallYet
    /\ \E w \in Dims, h \in Dims, d \in Dims,
          x \in Positions, y \in Positions, z \in Positions :
        prim' = [fn |-> "create_box_at", args |-> <<w, h, d, x, y, z>>,
                 out |-> create_box(w, h, d, x, y, z)]
    /\ UNCHANGED <<run_vars, rails>>

\* result = A; try: result = union([result, A])  except: concatenate
ComposeSelfUnion ==
    /\ prim = NoCallYet
    /\ \E w \in 1..MaxDim, h \in 1..MaxDim, d \in 1..MaxDim, answer \in Answers :
        LET A == create_box(w, h, d, 0, 0, 0)
        IN  prim' = [fn |-> "compose_self_union", args |-> <<A, answer>>,
                     out |-> <<"mesh", union_or_concatenate(A, A, answer)>>]
    /\ UNCHANGED <<run_vars, rails>>

\* try: shell = difference([outer, inner])  except: shell = outer
\* with outer a 10 x 10 x 10 box and inner a 10 x 10 x 5 box on its floor
DifferenceOfHalf ==
    /\ prim = NoCallYet
    /\ \E answer \in Answers :
        LET A == create_box(10, 10, 10, 0, 0, 0)
            B == create_box(10, 10, 5, 0, 0, 0)
        IN  prim' = [fn |-> "difference_of_half", args |-> <<A, B, answer>>,
                     out |-> <<"mesh", difference_or_keep(A, B, answer)>>]
    /\ UNCHANGED <<run_vars, rails>>

NextSolid ==
    \/ CallCreateBoxAt
    \/ ComposeSelfUnion
    \/ DifferenceOfHalf

SpecSolid == Init /\ [][NextSolid]_vars

(***************************************************************************)
(* generate_wire_duct_v2.py: the boxes generate_duct_body builds, in       *)
(* quarters of a millimetre (LIP_THICKNESS/2 is 0.75 mm)                   *)
(***************************************************************************)
duct_v2 ==
    [DUCT_WIDTH |-> 100, DUCT_HEIGHT |-> 80, DUCT_LENGTH |-> 800,
     WALL_THICKNESS |-> 8, BASE_WIDTH |-> 140, BASE_THICKNESS |-> 12,
     LIP_DEPTH |-> 12, LIP_THICKNESS |-> 6, LIP_HEIGHT_FROM_TOP |-> 20]

\* the create_box call behind each primitive of generate_duct_body
duct_v2_box(name) ==
    LET c == duct_v2
        lip_z == c.DUCT_HEIGHT - c.LIP_HEIGHT_FROM_TOP
    IN  CASE name = "base" ->
               create_box(c.BASE_WIDTH, c.DUCT_LENGTH, c.BASE_THICKNESS,
                          (c.DUCT_WIDTH - c.BASE_WIDTH) \div 2, 0, -c.BASE_THICKNESS)
          [] name = "outer" ->
               create_box(c.DUCT_WIDTH, c.DUCT_LENGTH, c.DUCT_HEIGHT, 0, 0, 0)
          [] name = "inner" ->
               create_box(c.DUCT_WIDTH - 2 * c.WALL_THICKNESS, c.DUCT_LENGTH + 8,
                          c.DUCT_HEIGHT + 4, c.WALL_THICKNESS, -4, c.WALL_THICKNESS)
          [] name = "left_lip" ->
               create_box(c.LIP_DEPTH, c.DUCT_LENGTH, c.LIP_THICKNESS,
                          c.WALL_THICKNESS, 0, lip_z - c.LIP_THICKNESS \div 2)
          [] name = "right_lip" ->
               create_box(c.LIP_DEPTH, c.DUCT_LENGTH, c.LIP_THICKNESS,
                          c.DUCT_WIDTH - c.WALL_THICKNESS - c.LIP_DEPTH, 0,
                          lip_z - c.LIP_THICKNESS \div 2)

RECURSIVE encloses(_, _)
\* the point p (twice its coordinates) is inside the solid the duct body's
\* mesh m bounds
encloses(m, p) ==
    IF m[1] = "prim" THEN in_box(duct_v2_box(m[2]), p)
    ELSE IF ~IsNode(m) \/ is_empty(m) THEN FALSE
    ELSE CASE m[1] = "difference" -> encloses(m[2], p) /\ ~encloses(m[3], p)
           [] m[1] \in {"union", "concatenate"} -> encloses(m[2], p) \/ encloses(m[3], p)
           [] OTHER -> encloses(m[2], p)

\* box a lies within box b
box_within(a, b) ==
    \A k \in 1..3 : box_min(b, k) <= box_min(a, k) /\ box_max(a, k) <= box_max(b, k)

(***************************************************************************)
(* Where parts are placed: the mounting clips along the clip duct.  A      *)
(* position is a fraction <<numerator, denominator>> of a millimetre, as   *)
(* CLIP_SPACING/2 is not a whole number.                                   *)
(***************************************************************************)
CLIP_SPACING == 75

\* duct lengths and clip spacings tried: multiples of SpanStep
MaxSpan == 8
SpanStep == 25
Spans == {SpanStep * k : k \in 1..MaxSpan}

Max(a, b) == IF a >= b THEN a ELSE b

\* num_clips = max(2, int(length / spacing) + 1)
num_clips(length, spacing) == Max(2, (length \div spacing) + 1)

\* np.linspace(start, stop, n) between spacing/2 and length - spacing/2:
\* start + k * (stop - start) / (n - 1) for k = 0 .. n-1
clip_positions(length, spacing) ==
    [k \in 1..num_clips(length, spacing) |->
        << spacing * (num_clips(length, spacing) - 1)
             + 2 * (k - 1) * (length - spacing),
           2 * (num_clips(length, spacing) - 1) >>]

CallClipPositions ==
    /\ prim = NoCallYet
    /\ \E length \in Spans, spacing \in Spans :
        prim' = [fn |-> "clip_positions", args |-> <<length, spacing>>,
                 out |-> clip_positions(length, spacing)]
    /\ UNCHANGED <<run_vars, rails>>

(***************************************************************************)
(* generate_wire_duct_final.py: the mounting base of the extruded profile  *)
(* and the screw shafts cut into it.  Lengths of this script are in halves *)
(* of a millimetre.                                                        *)
(***************************************************************************)
BASE_WIDTH == 70
BASE_THICKNESS == 6
SCREW_HOLE_DIA == 8
SCREW_INSET_FROM_END == 40

\* the part of create_channel_profile's polygon below profile Y = 0: the
\* mounting base, from (-base_half, -BASE_THICKNESS) to (base_half, 0)
base_profile_points ==
    LET base_half == BASE_WIDTH \div 2
    IN  << <<-base_half, -BASE_THICKNESS>>, <<base_half, -BASE_THICKNESS>>,
           <<base_half, 0>>, <<-base_half, 0>> >>

\* mesh = extrude_polygon(polygon, height=length): the profile at Z = 0 and
\* at Z = length; mesh.apply_transform(rotation_matrix(-pi/2, [1, 0, 0]))
extrude_profile(profile_points, length) ==
    [k \in 1..(2 * Len(profile_points)) |->
        LET v == profile_points[((k - 1) % Len(profile_points)) + 1]
        IN  rotation_x(-1, <<v[1], v[2], IF k <= Len(profile_points) THEN 0 ELSE length>>)]

\* the least and the greatest coordinate of the vertices along axis k
vertex_min(vs, k) == CHOOSE a \in {vs[n][k] : n \in 1..Len(vs)} :
                         \A n \in 1..Len(vs) : a <= vs[n][k]

vertex_max(vs, k) == CHOOSE a \in {vs[n][k] : n \in 1..Len(vs)} :
                         \A n \in 1..Len(vs) : a >= vs[n][k]

\* cyl = trimesh.creation.cylinder(radius, height), centred on the origin
\* along Z; cyl.apply_translation([x, y, z + height/2])
\* kept by its radius, its height and twice its centre
create_cylinder(radius, height, x, y, z) ==
    <<"cylinder", radius, height, <<2 * x, 2 * y, 2 * z + height>>>>

cylinder_min_z(c) == (c[4][3] - c[3]) \div 2

cylinder_max_z(c) == (c[4][3] + c[3]) \div 2

\* add_screw_holes: the two shafts, at SCREW_INSET_FROM_END from both ends,
\* from hole_z_bottom = -BASE_THICKNESS - 1 up by BASE_THICKNESS + 2
screw_shafts(length) ==
    LET hole_y_positions == <<SCREW_INSET_FROM_END, length - SCREW_INSET_FROM_END>>
        hole_x == 0
        hole_z_bottom == -BASE_THICKNESS - 2
    IN  [j \in 1..2 |->
            create_cylinder(SCREW_HOLE_DIA \div 2, BASE_THICKNESS + 4,
                            hole_x, hole_y_positions[j], hole_z_bottom)]

\* body = extrude_profile(create_channel_profile(), DUCT_LENGTH)
\* duct = add_screw_holes(body): the base of the body and the shafts
PlaceScrewHoles ==
    /\ prim = NoCallYet
    /\ \E length \in {2 * n : n \in Spans} :
        prim' = [fn |-> "add_screw_holes", args |-> <<length>>,
                 out |-> <<extrude_profile(base_profile_points, length),
                           screw_shafts(length)>>]
    /\ UNCHANGED <<run_vars, rails>>

NextPlace ==
    \/ CallClipPositions
    \/ PlaceScrewHoles

SpecPlace == Init /\ [][NextPlace]_vars

(***************************************************************************)
(* The rail and the frame channel: the rail helper called with arguments   *)
(* of any order of size, the channels as cut, and a rail sliding in one    *)
(***************************************************************************)
Sides == {"left", "right"}

\* widths and chamfer heights tried, the configured ones among them
Widths == {20, RAIL_NECK_WIDTH, RAIL_HEAD_WIDTH}

Chamfers == {0, RAIL_CHAMFER_HEIGHT}

\* positions of the rail's front end along the channel, from the stop wall
\* to the open end of the frame
MaxSlide == 25
SlideStep == 71

\* heights of the rail in the channel, from the head resting on the
\* channel's lower edge upwards
MaxLift == 2
LiftStep == 10

CallCreateTProfile ==
    /\ gen = "cable_tray"
    /\ \E neck_width \in Widths, head_width \in Widths,
          chamfer_height \in Chamfers, side \in Sides :
        \E o \in t_profile_outcomes(neck_width, RAIL_NECK_HEIGHT, head_width,
                                    chamfer_height, RAIL_HEAD_FLAT, TRAY_LENGTH,
                                    rail_x(side), 0, wall_top) :
            prim' = [fn |-> "create_t_profile_upright",
                     args |-> <<neck_width, RAIL_NECK_HEIGHT, head_width,
                                chamfer_height, RAIL_HEAD_FLAT, TRAY_LENGTH,
                                rail_x(side), 0, wall_top>>,
                     out |-> o]
    /\ UNCHANGED <<run_vars, rails>>

\* generate_rail_frame up to the subtraction of the channels
CutTSlot ==
    /\ gen = "rail_frame"
    /\ \E side \in Sides :
        prim' = [fn |-> "generate_rail_frame", args |-> <<side>>,
                 out |-> <<"slot", t_slot(side)>>]
    /\ UNCHANGED <<run_vars, rails>>

\* the coordinates along axis k at which a face of the frame, of a channel
\* or of the rail lies
faces(solids, k) ==
    {box_min(frame_parts[j], k) : j \in 1..Len(frame_parts)}
    \cup {box_max(frame_parts[j], k) : j \in 1..Len(frame_parts)}
    \cup {box_min(t_slot(sd), k) : sd \in Sides}
    \cup {box_max(t_slot(sd), k) : sd \in Sides}
    \cup {box_min(solids.neck, k), box_max(solids.neck, k),
          box_min(solids.head, k), box_max(solids.head, k)}
    \cup {solids.left_wedge[j][k] : j \in 1..6}
    \cup {solids.right_wedge[j][k] : j \in 1..6}

\* the middles (doubled) of the cells the coordinates S cut an axis into,
\* between lo and hi
middles(S, lo, hi) ==
    LET T == {c \in S : lo <= c /\ c <= hi}
    IN  {a + (CHOOSE b \in T : b > a /\ \A c \in T : c > a => b <= c) :
            a \in {c \in T : \E d \in T : d > c}}

\* rail and frame have a point in common
overlap(solids) ==
    LET lo(k) == IF box_min(solids.neck, k) < box_min(solids.head, k)
                 THEN box_min(solids.neck, k) ELSE box_min(solids.head, k)
        hi(k) == IF box_max(solids.neck, k) > box_max(solids.head, k)
                 THEN box_max(solids.neck, k) ELSE box_max(solids.head, k)
        xs == middles(faces(solids, 1), lo(1), hi(1))
        ys == middles(faces(solids, 2), lo(2), hi(2))
        zs == middles(faces(solids, 3), lo(3), hi(3))
    IN  \E x \in xs : \E z \in zs : \E y \in ys :
            in_rail(solids, <<x, y, z>>) /\ in_frame(<<x, y, z>>)

\* the configured rail, centred on the channel of one side, its head inside
\* the channel, its front end at y
rail_in_channel(side, y, lift) ==
    t_profile_solids(RAIL_NECK_WIDTH, RAIL_NECK_HEIGHT, RAIL_HEAD_WIDTH,
                     RAIL_CHAMFER_HEIGHT, RAIL_HEAD_FLAT, TRAY_LENGTH,
                     slot_x(side), y,
                     box_min(t_slot(side), 3) - RAIL_NECK_HEIGHT + lift)

slide(side, n, lift) ==
    [fn |-> "slide", args |-> <<side, n, lift>>,
     out |-> <<"overlap",
               overlap(rail_in_channel(side, FRAME_STOP_THICKNESS + n * SlideStep,
                                       lift))>>]

\* the rail's front end is put to the open end of a channel
InsertRail ==
    /\ gen = "rail_frame"
    /\ \E side \in Sides, l \in 0..MaxLift :
        prim' = slide(side, MaxSlide, l * LiftStep)
    /\ UNCHANGED <<run_vars, rails>>

\* and pushed one step further in, down to the stop wall
PushRail ==
    /\ prim.fn = "slide"
    /\ prim.args[2] > 0
    /\ prim' = slide(prim.args[1], prim.args[2] - 1, prim.args[3])
    /\ UNCHANGED <<run_vars, rails>>

NextJoint ==
    \/ CallCreateTProfile
    \/ CutTSlot
    \/ InsertRail
    \/ PushRail

SpecJoint == Init /\ [][NextJoint]_vars

(***************************************************************************)
(* The two rails built side by side: the statements of the two calls of    *)
(* create_t_profile_upright in any order, each call keeping the order of   *)
(* its own statements                                                      *)
(***************************************************************************)
\* position of a call that has returned
Returned == 7

\* a variable of the call that builds rail r, where that call kept it
local_of_first_call(r, name) == rails["left_rail"][name]

local(r, name) == rails[r][name]

Other(r) == CHOOSE o \in Rails : o # r

\* the engine's answers to both calls stay within the bound on failures
WithinFailures(r, answer) ==
    Cost(rails[r].answers \o <<answer>>) + Cost(rails[Other(r)].answers) <= MaxFailures

\* the call for rail r is at statement n; the other call is under way
AtRail(r, n) == gen = "cable_tray" /\ pc = 1 /\ rails[r].pc = n

Mixed(r) == rails[r].mixed \/ (1 < rails[Other(r)].pc /\ rails[Other(r)].pc < Returned)

\* the call for rail r binds its local variable, notes the engine's answer
\* and moves on
Bound(r, name, m, said, next) ==
    rails' = [rails EXCEPT ![r] =
                 [@ EXCEPT ![name] = m, !.answers = @ \o said, !.pc = next,
                           !.mixed = Mixed(r)]]

\* result = parts[0]
TakeNeck ==
    /\ \E r \in Rails :
        /\ AtRail(r, 1)
        /\ Bound(r, "result", Pj("neck", r), <<>>, 2)
    /\ UNCHANGED <<run_vars, prim>>

\* try: result = union([result, head])  except: result = concatenate(..)
UnionHead ==
    /\ \E r \in Rails, answer \in Answers :
        /\ AtRail(r, 2)
        /\ WithinFailures(r, answer)
        /\ Bound(r, "result",
                 union_or_concatenate(local(r, "result"), Pj("head", r), answer),
                 <<answer>>, 3)
    /\ UNCHANGED <<run_vars, prim>>

\* left_wedge = extrude_polygon(..); apply_transform; apply_translation
CreateLeftWedge ==
    /\ \E r \in Rails :
        /\ AtRail(r, 3)
        /\ Bound(r, "left_wedge", Pj("left_wedge", r), <<>>, 4)
    /\ UNCHANGED <<run_vars, prim>>

CreateRightWedge ==
    /\ \E r \in Rails :
        /\ AtRail(r, 4)
        /\ Bound(r, "right_wedge", Pj("right_wedge", r), <<>>, 5)
    /\ UNCHANGED <<run_vars, prim>>

\* try: result = difference([result, left_wedge])  except: print, return
SubtractLeftWedge ==
    /\ \E r \in Rails, answer \in Answers :
        /\ AtRail(r, 5)
        /\ WithinFailures(r, answer)
        /\ Bound(r, "result",
                 difference_or_keep(local(r, "result"), local(r, "left_wedge"), answer),
                 <<answer>>, IF answer = "raise" THEN Returned ELSE 6)
    /\ UNCHANGED <<run_vars, prim>>

\* result = difference([result, right_wedge]) in the same try block
SubtractRightWedge ==
    /\ \E r \in Rails, answer \in Answers :
        /\ AtRail(r, 6)
        /\ WithinFailures(r, answer)
        /\ Bound(r, "result",
                 difference_or_keep(local(r, "result"), local(r, "right_wedge"), answer),
                 <<answer>>, Returned)
    /\ UNCHANGED <<run_vars, prim>>

NextRails ==
    \/ TakeNeck
    \/ UnionHead
    \/ CreateLeftWedge
    \/ CreateRightWedge
    \/ SubtractLeftWedge
    \/ SubtractRightWedge

SpecRails == Init /\ [][NextRails]_vars

(***************************************************************************)
(* A generator called a second time in the same process, with the same     *)
(* module parameters, the engine and the meshes answering as before        *)
(***************************************************************************)
\* a list kept at module level: the second call finds what the first left
module_level_list(old) == old

\* parts = [], holes = []: every call begins with lists of its own
new_list(old) == <<>>

Reinvoke ==
    /\ invocation.number = 1
    /\ ~Running
    /\ invocation' = [number |-> 2, tape |-> invocation.tape,
                      earlier |-> [status |-> status, solid |-> ret.solid]]
    /\ pc' = 1
    /\ status' = "running"
    /\ i' = 0
    /\ reg' = [r \in Regs |-> NoMesh]
    /\ holes' = new_list(holes)
    /\ engine' = <<>>
    /\ failures' = 0
    /\ watertight' = "unknown"
    /\ reported' = "none"
    /\ rechecks' = 0
    /\ repairs' = 0
    /\ ret' = [solid |-> NoMesh]
    /\ exported' = FALSE
    /\ UNCHANGED <<gen, prim, rails>>

NextTwice ==
    \/ Next
    \/ Reinvoke

SpecTwice == Init /\ [][NextTwice]_vars

(***************************************************************************)
(* Properties                                                              *)
(***************************************************************************)
\* the accumulator and the operand of a single boolean statement
StepAcc ==
    CASE Ins.k = "fold"     -> reg[Ins.dst]
      [] Ins.k = "try_diff" -> Val(Ins.src)
      [] Ins.k = "raw"      -> Val(Ins.a)

StepOperand ==
    CASE Ins.k = "fold"     -> ListOf(Ins)[i]
      [] Ins.k = "try_diff" -> Val(Ins.part)
      [] Ins.k = "raw"      -> Val(Ins.b)

\* this step is one union or difference call, and the engine raised
FailedStep ==
    /\ Running
    /\ Ins.k \in {"fold", "try_diff", "raw"}
    /\ engine' = <<"raise">>

C2_DegradedTagOnReturn ==
    ret.solid # NoMesh =>
        (HasConcatenate(ret.solid) <=> "degraded" \in DOMAIN ret)

\* what the program's state shows of a fallback: the accumulator is the
\* bare value concatenate returned
is_concatenation(m) == m[1] = "concatenate"

\* C3: across the steps of a fold, an accumulator that shows degradation
\* shows it after every later step
C3_DegradedMonotone ==
    [][(At("fold") /\ i >= 2 /\ status' = "running"
            /\ is_concatenation(reg[Ins.dst]))
        => is_concatenation(reg'[Ins.dst])]_vars

RECURSIVE Unfold(_, _)
\* the parts a left fold of n steps was built from, seed first; a mesh that
\* is no such fold unfolds to itself alone
Unfold(m, n) ==
    IF n = 0 THEN <<m>>
    ELSE IF IsNode(m) /\ m[1] \in {"union", "concatenate"}
         THEN Append(Unfold(m[2], n - 1), m[3])
         ELSE <<m>>

\* the fold statement just completed, if any
FoldDone ==
    /\ status \in {"running", "done"}
    /\ pc > 1
    /\ i = 0
    /\ Prog[pc - 1].k = "fold"

\* C4: a fold is a strict left fold: seeded with the first part, and after
\* the steps for parts 2..k the accumulator is step k applied to the result
\* of the steps before it and to part k, in list order, none skipped,
\* repeated or reordered
C4_StrictLeftFold ==
    /\ (At("fold") /\ i >= 2) =>
           Unfold(reg[Ins.dst], i - 2) = SubSeq(ListOf(Ins), 1, i - 1)
    /\ FoldDone =>
           LET list == ListOf(Prog[pc - 1])
           IN  Unfold(reg[Prog[pc - 1].dst], Len(list) - 1) = list

\* a fold over three parts or more has completed, one of its unions failed
C4_LongFoldDone ==
    /\ FoldDone
    /\ Len(ListOf(Prog[pc - 1])) >= 3
    /\ engine # <<>>
    /\ HasConcatenate(reg[Prog[pc - 1].dst])

\* C5: in no generator does a failure of the boolean engine leave the
\* generator as an exception
C5_FailureNeverPropagates == status # "raised"

\* C6: whatever main() exports came from the generator together with a
\* health report
C6_ReportWithExportedSolid == exported => "report" \in DOMAIN ret

\* C7: a finished run made at most one repair, and after a repair read
\* is_watertight again exactly once, so that the value it reported is the
\* one after the repair
C7_RepairThenRecheckOnce ==
    status = "done" =>
        /\ repairs <= 1
        /\ repairs = 1 => (rechecks = 1 /\ reported = watertight)

\* C8: a mesh without faces that reaches the validation block ends the run
\* with an error: no fill_holes, nothing returned
C8_EmptySolidIsHardFailure ==
    [][(At("validate") /\ is_empty(reg[Ins.dst]))
        => (status' = "raised" /\ repairs' = repairs /\ ret' = ret)]_vars

C10_NonPositiveDimensionFails ==
    (prim.fn # "none" /\ \E k \in 1..3 : prim.args[k] <= 0)
        => prim.out = <<"error">>

(***************************************************************************)
(* C11: create_t_profile_upright gives back a solid only when head_width   *)
(* is greater than neck_width; called with head_width <= neck_width it     *)
(* fails.                                                                  *)
(***************************************************************************)
C11_HeadNotWiderThanNeckFails ==
    (prim.fn = "create_t_profile_upright" /\ prim.args[3] <= prim.args[1])
        => prim.out = <<"error">>

(***************************************************************************)
(* C17: the configured rail has a true 45 degree chamfer: the overhang     *)
(* create_t_profile_upright computes for it, on each side, equals the      *)
(* chamfer height, RAIL_HEAD_WIDTH - RAIL_NECK_WIDTH = 2 *                 *)
(* RAIL_CHAMFER_HEIGHT.                                                    *)
(***************************************************************************)
ConfiguredRailCall ==
    /\ prim.fn = "create_t_profile_upright"
    /\ prim.args[1] = RAIL_NECK_WIDTH
    /\ prim.args[3] = RAIL_HEAD_WIDTH
    /\ prim.args[4] = RAIL_CHAMFER_HEIGHT

C17_OverhangEqualsChamferHeight ==
    ConfiguredRailCall =>
        /\ overhang(prim.args[3], prim.args[1]) = prim.args[4]
        /\ RAIL_HEAD_WIDTH - RAIL_NECK_WIDTH = 2 * RAIL_CHAMFER_HEIGHT

(***************************************************************************)
(* C15: the two channels of the frame are as far apart, centre to centre,  *)
(* as the two rails of the tray (TRAY_WIDTH - WALL_THICKNESS), so that one *)
(* X offset of the tray puts both rail heads inside their channels.        *)
(***************************************************************************)
HeadInChannel(side, offset) ==
    /\ box_min(t_slot(side), 1) <= rail_x(side) + offset - RAIL_HEAD_WIDTH \div 2
    /\ rail_x(side) + offset + RAIL_HEAD_WIDTH \div 2 <= box_max(t_slot(side), 1)

C15_ChannelsAsFarApartAsRails ==
    prim.fn = "generate_rail_frame" =>
        /\ slot_x("right") - slot_x("left") = rail_x("right") - rail_x("left")
        /\ rail_x("right") - rail_x("left") = TRAY_WIDTH - WALL_THICKNESS
        /\ \E offset \in 0..ACTUAL_FRAME_WIDTH :
               \A side \in Sides : HeadInChannel(side, offset)

(***************************************************************************)
(* C12: with a clearance of 0.5 mm on each side, the cavity is at least    *)
(* head_width + 2 * clearance wide and the slot at least neck_width + 2 *  *)
(* clearance, for the FRAME_SLOT_WIDTH and FRAME_CAVITY_WIDTH parameters   *)
(* as well as for the width of the channel generate_rail_frame cuts.       *)
(***************************************************************************)
Clearance == 5

C12_ChannelLeavesClearance ==
    prim.fn = "generate_rail_frame" =>
        LET channel == prim.out[2]
            width == box_max(channel, 1) - box_min(channel, 1)
        IN  /\ FRAME_CAVITY_WIDTH >= RAIL_HEAD_WIDTH + 2 * Clearance
            /\ FRAME_SLOT_WIDTH >= RAIL_NECK_WIDTH + 2 * Clearance
            /\ width >= RAIL_HEAD_WIDTH + 2 * Clearance
            /\ width >= RAIL_NECK_WIDTH + 2 * Clearance

C12_RightChannelCut ==
    /\ prim.fn = "generate_rail_frame"
    /\ prim.args = <<"right">>
    /\ prim.out = <<"slot", t_slot("right")>>

(***************************************************************************)
(* C16: after both wedges were subtracted the head of the rail tapers.     *)
(* Each wedge, turned and moved, lies inside the head block: Y from y to   *)
(* y + length, Z from z + neck_height to z + neck_height + chamfer_height, *)
(* X between the neck edge and the outer head edge.  The rail is           *)
(* neck_width wide at the bottom of the head (no material beside the neck  *)
(* edge there) and head_width wide at chamfer_height above it (material    *)
(* next to the outer head edge there).                                     *)
(***************************************************************************)
Between(lo, v, hi) == (lo <= v /\ v <= hi) \/ (hi <= v /\ v <= lo)

WedgeInsideHead(w, side, a) ==
    \A k \in 1..6 :
        /\ Between(a[7] + side * (a[1] \div 2), w[k][1], a[7] + side * (a[3] \div 2))
        /\ Between(a[8], w[k][2], a[8] + a[6])
        /\ Between(a[9] + a[2], w[k][3], a[9] + a[2] + a[4])

C16_WedgesTaperTheHead ==
    (/\ prim.fn = "create_t_profile_upright"
     /\ prim.out[1] = "rail"
     /\ prim.args[3] > prim.args[1]
     /\ prim.args[4] > 0) =>
        LET a == prim.args
            solids == prim.out[2]
            ymid == 2 * a[8] + a[6]
            bottom == 2 * (a[9] + a[2]) + 1
            top == 2 * (a[9] + a[2] + a[4]) - 1
        IN  /\ WedgeInsideHead(solids.left_wedge, -1, a)
            /\ WedgeInsideHead(solids.right_wedge, 1, a)
            /\ \A side \in {-1, 1} :
                /\ ~in_rail(solids, <<2 * a[7] + side * (a[1] \div 2 + a[3] \div 2),
                                      ymid, bottom>>)
                /\ in_rail(solids, <<2 * a[7] + side * (a[3] - 1), ymid, top>>)

(***************************************************************************)
(* C13: the slot cut into the frame has an entry narrower than the rail    *)
(* head beneath a wider cavity, so that a seated head cannot be withdrawn  *)
(* across the slide axis: at some height of the slot the material the      *)
(* frame keeps overlaps the X extent of the head on both sides of the      *)
(* neck.                                                                   *)
(***************************************************************************)
\* frame material at height z and depth y somewhere between x = lo and hi
MaterialBetween(solids, lo, hi, y, z) ==
    \E x \in middles(faces(solids, 1), lo, hi) : in_frame(<<x, y, z>>)

C13_HeadCapturedOnBothSides ==
    prim.fn = "generate_rail_frame" =>
        LET side == prim.args[1]
            solids == rail_in_channel(side, FRAME_STOP_THICKNESS, 0)
            c == slot_x(side)
            half_neck == RAIL_NECK_WIDTH \div 2
            half_head == RAIL_HEAD_WIDTH \div 2
        IN  \E z \in middles(faces(solids, 3), 0, FRAME_RAIL_HEIGHT) :
            \E y \in middles(faces(solids, 2), FRAME_STOP_THICKNESS, FRAME_LENGTH) :
                /\ MaterialBetween(solids, c - half_head, c - half_neck, y, z)
                /\ MaterialBetween(solids, c + half_neck, c + half_head, y, z)

(***************************************************************************)
(* C14: a rail built with the configured RAIL_* values and centred on a    *)
(* channel of the frame has, at every position along the slide axis Y      *)
(* over the length of the slot, no point in common with the material the   *)
(* frame keeps after the channels were cut.                                *)
(***************************************************************************)
C14_RailSlidesFree ==
    prim.fn = "slide" => prim.out = <<"overlap", FALSE>>

C14_RailAtStopWall ==
    /\ prim.fn = "slide"
    /\ prim.args[2] = 0
    /\ prim.out = <<"overlap", FALSE>>

(***************************************************************************)
(* C18: once a solid is built, no later stage (boolean step, fallback,     *)
(* validation, repair) modifies it in place: a stage gives a new solid to  *)
(* the variable it assigns and leaves every other solid, its inputs among  *)
(* them, as it was.  Validation and repair assign no variable.             *)
(***************************************************************************)
\* the mesh variables a statement assigns
Assigned(ins) ==
    CASE ins.k \in {"fold", "try_diff", "raw", "diff_engines", "bind"} -> {ins.dst}
      [] ins.k = "try2" -> {ins.d1, ins.d2}
      [] OTHER -> {}

C18_NoSolidModifiedInPlace ==
    [][Running => \A r \in Regs \ Assigned(Ins) : reg'[r] = reg[r]]_vars

(***************************************************************************)
(* C20: the left and the right rail share no mutable state: whatever the   *)
(* order in which the construction steps of the two (neck/head union,      *)
(* wedge creation, wedge subtraction) are taken, each resulting solid is   *)
(* the one obtained by building the rails one after the other with the     *)
(* same answers of the engine.                                             *)
(***************************************************************************)
\* what generate_tray_rails binds to rail r when the statements of
\* create_t_profile_upright(r) run on their own, the engine answering a
rail_in_sequence(r, a) ==
    LET prog == create_t_profile_upright(r)
        fold == prog[1]
        t == prog[2]
        rg == [reg EXCEPT ![fold.dst] =
                  union_or_concatenate(fold.list[1], fold.list[2], a[1])]
        r1 == IF a[2] = "raise" THEN rg
              ELSE [rg EXCEPT ![t.d1] =
                       boolean(t.op1, ValIn(rg, t.a1), ValIn(rg, t.b1), "manifold", a[2])]
        r2 == IF Len(a) = 3 /\ a[3] # "raise"
              THEN [r1 EXCEPT ![t.d2] =
                       boolean(t.op2, ValIn(r1, t.a2), ValIn(r1, t.b2), "manifold", a[3])]
              ELSE r1
    IN  r2[r]

C20_InterleavedRailsAsInSequence ==
    \A r \in Rails :
        rails[r].pc = Returned =>
            rails[r].result = rail_in_sequence(r, rails[r].answers)

C20_BothRailsBuiltInterleaved ==
    \A r \in Rails :
        /\ rails[r].pc = Returned
        /\ rails[r].mixed
        /\ Len(rails[r].answers) = 3

SecondMinuend(ins, s1) ==
    IF ins.a2 = R(ins.d1)
    THEN boolean(ins.op1, Val(ins.a1), Val(ins.b1), "manifold", s1)
    ELSE Val(ins.a2)

C24_FailedDifferenceKeepsAccumulator ==
    [][/\ (At("try_diff") /\ Raised(engine')) =>
              reg'[Ins.dst] = Val(Ins.src)
       /\ (At("diff_engines") /\ Raised(engine')) =>
              reg'[Ins.dst] = Val(Ins.a)
       /\ (At("try2") /\ Ins.op1 = "difference" /\ engine'[1] = "raise") =>
              reg'[Ins.d1] = Val(Ins.a1)
       /\ (At("try2") /\ Ins.op2 = "difference" /\ Len(engine') = 2
                      /\ engine'[2] = "raise") =>
              reg'[Ins.d2] = SecondMinuend(Ins, engine'[1])]_vars

C24_DifferenceFailedInTrayShell ==
    /\ gen = "cable_tray"
    /\ pc = 2
    /\ engine = <<"raise">>
    /\ reg["shell"] = P("outer")

(***************************************************************************)
(* C25: a guarded block that applies two boolean operations to the same    *)
(* accumulator (left then right chamfer wedge, rib, retention lip) is all  *)
(* or nothing: when either operation fails, the accumulator after the      *)
(* block is the accumulator before the block.                              *)
(***************************************************************************)
C25_GuardedPairAllOrNothing ==
    [][(At("try2") /\ Ins.d1 = Ins.d2 /\ Raised(engine')) =>
           reg'[Ins.d2] = reg[Ins.d2]]_vars

(***************************************************************************)
(* C26: in generate_wall_mount the screw-hole Difference tries the engines *)
(* in a fixed order: 'blender' first, 'manifold' only after 'blender'      *)
(* failed, the bracket without holes only after both failed.  The result   *)
(* is bracket minus holes whenever one engine answers, and never the       *)
(* concatenation of bracket and holes.                                     *)
(***************************************************************************)
C26_BlenderThenManifoldThenBracket ==
    [][At("diff_engines") =>
        LET s == engine'
            a == Val(Ins.a)
            b == Val(Ins.b)
            out == reg'[Ins.dst]
        IN  /\ s[1] # "raise" =>
                   Len(s) = 1 /\ out = boolean("difference", a, b, "blender", s[1])
            /\ s[1] = "raise" =>
                   /\ Len(s) = 2
                   /\ s[2] # "raise" =>
                          out = boolean("difference", a, b, "manifold", s[2])
                   /\ s[2] = "raise" => out = a
            /\ out # concatenate(a, b)]_vars

C26_ManifoldAfterBlenderFailed ==
    /\ gen \in {"mount", "rain101_mount"}
    /\ pc > 1
    /\ Prog[pc - 1].k = "diff_engines"
    /\ engine = <<"raise", "ok">>
    /\ reg["result"] = boolean("difference", reg["bracket"], reg["all_holes"], "manifold", "ok")

(***************************************************************************)
(* C29: each T-slot channel generate_rail_frame cuts starts at y =         *)
(* FRAME_STOP_THICKNESS and extends past y = FRAME_LENGTH.  Frame material *)
(* FRAME_STOP_THICKNESS thick closes the channel at the y = 0 end (what    *)
(* the frame has there in the channel's cross-section is not cut, and a    *)
(* rail pushed beyond the stop runs into it); the channel is open at the   *)
(* opposite end only.                                                      *)
(***************************************************************************)
\* p lies in some part of the frame, channels not yet cut
in_uncut_frame(p) == \E j \in 1..Len(frame_parts) : in_box(frame_parts[j], p)

C29_StopWallClosesOneEnd ==
    prim.fn = "generate_rail_frame" =>
        LET side == prim.args[1]
            channel == prim.out[2]
            solids == rail_in_channel(side, 0, 0)
            xs == middles(faces(solids, 1), box_min(channel, 1), box_max(channel, 1))
            zs == middles(faces(solids, 3), box_min(channel, 3), box_max(channel, 3))
            wall == middles(faces(solids, 2), 0, FRAME_STOP_THICKNESS)
            open == middles(faces(solids, 2), FRAME_STOP_THICKNESS, FRAME_LENGTH)
        IN  /\ box_min(channel, 2) = FRAME_STOP_THICKNESS
            /\ box_max(channel, 2) > FRAME_LENGTH
            /\ wall # {}
            /\ \A x \in xs : \A z \in zs : \A y \in wall :
                   in_uncut_frame(<<x, y, z>>) => in_frame(<<x, y, z>>)
            /\ \A l \in 0..MaxLift :
                   overlap(rail_in_channel(side, 0, l * LiftStep))
            /\ open # {}
            /\ \A x \in xs : \A z \in zs : \A y \in open : ~in_frame(<<x, y, z>>)

C29_LeftChannelCut ==
    /\ prim.fn = "generate_rail_frame"
    /\ prim.args = <<"left">>
    /\ box_min(prim.out[2], 2) = FRAME_STOP_THICKNESS

(***************************************************************************)
(* C23: for all positive extents create_box(w, h, d, x, y, z) returns a    *)
(* closed box that occupies exactly [x, x+w] x [y, y+h] x [z, z+d], its    *)
(* minimum corner at (x, y, z), with volume w * h * d.  (Every copy of     *)
(* create_box in the repository has the same two statements.)              *)
(***************************************************************************)
C23_BoxAtMinimumCorner ==
    (/\ prim.fn = "create_box_at"
     /\ \A k \in 1..3 : prim.args[k] > 0) =>
        LET a == prim.args
            box == prim.out
        IN  /\ \A k \in 1..3 :
                /\ box_min(box, k) = a[3 + k]
                /\ box_max(box, k) = a[3 + k] + a[k]
            /\ cells(box) = {c \in (a[4]..(a[4] + a[1] - 1))
                                   \X (a[5]..(a[5] + a[2] - 1))
                                   \X (a[6]..(a[6] + a[3] - 1)) : TRUE}
            /\ volume(box) = a[1] * a[2] * a[3]
            /\ is_watertight_values(box) = {TRUE}

C23_BoxPlacedOffOrigin ==
    /\ prim.fn = "create_box_at"
    /\ prim.args = <<1, 2, MaxDim, -1, 1, 1>>
    /\ volume(prim.out) = 2 * MaxDim

\* C21: composing a solid A with one Union(A) step gives a solid of the
\* volume of A, and a step that took the concatenate fallback returns its
\* solid with a degraded flag beside it
C21_SelfUnionKeepsVolumeOrFlagged ==
    prim.fn = "compose_self_union"
        => LET A == prim.args[1]
               m == prim.out[2]
           IN  IF HasConcatenate(m)
               THEN Len(prim.out) = 3
               ELSE volume(m) = volume(A)

\* C22: the Difference step A minus B, for A a 10 x 10 x 10 box and B a
\* 10 x 10 x 5 box over its lower half, returns a solid of volume 500 on
\* every path the step can take
C22_HalfDifferenceIs500OnEveryPath ==
    prim.fn = "difference_of_half" => volume(prim.out[2]) = 500

\* C22 (amended): the step returns a solid of volume 500 when the engine
\* answers with its mesh, the minuend A itself (volume 1000) when the
\* engine raises, and a mesh with no faces when the engine answers so
C22_HalfDifferenceByPath ==
    prim.fn = "difference_of_half"
        => LET A == prim.args[1]
               B == prim.args[2]
               answer == prim.args[3]
               m == prim.out[2]
           IN  /\ answer = "ok" => volume(m) = 500 /\ cells(m) = cells(A) \ cells(B)
               /\ answer = "raise" => m = A /\ volume(m) = 1000
               /\ answer = "empty" => is_empty(m) /\ volume(m) = 0

C22_HalfDifferenceRaised ==
    /\ prim.fn = "difference_of_half"
    /\ prim.args[3] = "raise"
    /\ volume(prim.out[2]) = 1000

\* C27: with the configured DUCT_LENGTH and CLIP_SPACING, adjacent mounting
\* clips of the clip duct are exactly CLIP_SPACING apart centre to centre
C27_ClipsSpacedByClipSpacing ==
    (prim.fn = "clip_positions" /\ prim.args = <<DUCT_LENGTH, CLIP_SPACING>>)
        => \A k \in 1..(Len(prim.out) - 1) :
               prim.out[k + 1][1] - prim.out[k][1] = CLIP_SPACING * prim.out[k][2]

\* C28: in the final wire duct each screw shaft spans the full thickness of
\* the mounting base as extrude_profile turned it: the shaft's Z extent
\* contains the base's Z extent
C28_ShaftsGoThroughTheBase ==
    prim.fn = "add_screw_holes"
        => LET base == prim.out[1]
               shafts == prim.out[2]
           IN  \A j \in 1..Len(shafts) :
                   /\ cylinder_min_z(shafts[j]) <= vertex_min(base, 3)
                   /\ vertex_max(base, 3) <= cylinder_max_z(shafts[j])

(***************************************************************************)
(* C30: generate_duct_body of the screw-mount duct cuts the cavity before  *)
(* it unions the two retention lips, so the body it returns when no step   *)
(* failed has both lips; the lips lie wholly inside the cavity, so cutting *)
(* the cavity after the lips would remove them.                            *)
(***************************************************************************)
DuctBodyReturned ==
    /\ gen = "wire_duct_v2"
    /\ status = "running"
    /\ pc = Len(generate_duct_body_v2) + 1
    /\ failures = 0

Centre(name) == duct_v2_box(name)[3]

LipsThenCavity ==
    boolean("difference",
            boolean("union",
                    boolean("union", boolean("union", P("base"), P("outer"), "manifold", "ok"),
                            P("left_lip"), "manifold", "ok"),
                    P("right_lip"), "manifold", "ok"),
            P("inner"), "manifold", "ok")

C30_CavityCutBeforeLips ==
    DuctBodyReturned
        => /\ reg["body"][1] = "union" /\ reg["body"][3] = P("right_lip")
           /\ reg["body"][2][1] = "union" /\ reg["body"][2][3] = P("left_lip")
           /\ reg["body"][2][2][1] = "difference" /\ reg["body"][2][2][3] = P("inner")
           /\ \A lip \in {"left_lip", "right_lip"} :
                  /\ encloses(reg["body"], Centre(lip))
                  /\ box_within(duct_v2_box(lip), duct_v2_box("inner"))
                  /\ ~encloses(LipsThenCavity, Centre(lip))

C30_DuctBodyBuiltWithoutFailure ==
    /\ DuctBodyReturned
    /\ encloses(reg["body"], Centre("left_lip"))
    /\ encloses(reg["body"], Centre("right_lip"))

====
